---------------------------- MODULE Spec2Model ----------------------------
(***************************************************************************)
(* HyperLogLog cardinality estimator (src/hyperloglog.go) as a state       *)
(* machine: estimator objects with the fields reg, m, p, c, z and the      *)
(* operations New, Clear, Add, Merge, Count, GobEncode and GobDecode.      *)
(*                                                                         *)
(* Representation choices, all value-preserving:                           *)
(*  - a uint32 is the sequence of its 32 bits, most significant first      *)
(*    (TLC integers stop at 2^31 - 1);                                     *)
(*  - the slice reg is the record [len, nz]: its length and the function   *)
(*    from the indices holding a non-zero byte to that byte; every index   *)
(*    below len that is not in DOMAIN nz holds 0 (make() zero-fills);      *)
(*  - float64 quantities are exact rationals over arbitrary-size naturals  *)
(*    (little-endian base-10000 digit sequences); the two results that     *)
(*    pass through math.Log stay symbolic, see linearCounting.             *)
(***************************************************************************)
EXTENDS Integers, Sequences, FiniteSets, TLC

\* ------------------------------------------------------------------
\* Program constants
\* ------------------------------------------------------------------

\* width of the hash and of the words Add shifts (uint32)
WordBits == 32

\* New accepts precision in [MinPrecision, MaxPrecision]
MinPrecision == 4

MaxPrecision == 16

\* width of the field z (uint16)
ZBits == 16

\* ------------------------------------------------------------------
\* Bounds of the model
\* ------------------------------------------------------------------

\* how many hashes of HashPool the callers of Add draw from
NumHashes == 3

\* the same, in the behaviours that serialize
NumGobHashes == 1

\* the same, in the behaviours of three estimators
NumMergeHashes == 2

\* how many hashes of RankPool are handed to the index and rank of Add
NumRankHashes == 8

\* how many raw estimates of RawPool doCount is handed
NumRaws == 10

\* ------------------------------------------------------------------
\* Integer helpers
\* ------------------------------------------------------------------

Pow2(n) == 2 ^ n

\* n as a sequence of w bits, most significant first
RECURSIVE Bits(_, _)
Bits(n, w) == IF w = 0 THEN <<>> ELSE Append(Bits(n \div 2, w - 1), n % 2)

\* the number a bit sequence (most significant first) denotes
RECURSIVE BitsToNat(_)
BitsToNat(b) ==
    IF b = <<>> THEN 0
    ELSE 2 * BitsToNat(SubSeq(b, 1, Len(b) - 1)) + b[Len(b)]

Zeros(n) == [k \in 1..n |-> 0]

\* ------------------------------------------------------------------
\* Arbitrary-size naturals: little-endian digits in base Base, no
\* leading zero digit, <<>> is 0.  They carry the float64 quantities of
\* calculateEstimate and doCount exactly.
\* ------------------------------------------------------------------

Base == 100 * 100

RECURSIVE Big(_)
Big(n) == IF n = 0 THEN <<>> ELSE <<n % Base>> \o Big(n \div Base)

RECURSIVE BigAddC(_, _, _)
BigAddC(a, b, carry) ==
    IF a = <<>> /\ b = <<>> THEN (IF carry = 0 THEN <<>> ELSE <<carry>>)
    ELSE LET x == IF a = <<>> THEN 0 ELSE Head(a)
             y == IF b = <<>> THEN 0 ELSE Head(b)
             s == x + y + carry
         IN  <<s % Base>> \o BigAddC(IF a = <<>> THEN <<>> ELSE Tail(a),
                                     IF b = <<>> THEN <<>> ELSE Tail(b),
                                     s \div Base)

BigAdd(a, b) == BigAddC(a, b, 0)

\* a * d for a factor 0 <= d <= 20 * Base, which keeps every product
\* of a digit and d below 2^31
RECURSIVE BigMulDigitC(_, _, _)
BigMulDigitC(a, d, carry) ==
    IF a = <<>> THEN Big(carry)
    ELSE LET s == Head(a) * d + carry
         IN  <<s % Base>> \o BigMulDigitC(Tail(a), d, s \div Base)

BigMulDigit(a, d) == IF d = 0 \/ a = <<>> THEN <<>> ELSE BigMulDigitC(a, d, 0)

BigShift(a) == IF a = <<>> THEN <<>> ELSE <<0>> \o a

RECURSIVE BigMul(_, _)
BigMul(a, b) ==
    IF b = <<>> \/ a = <<>> THEN <<>>
    ELSE BigAdd(BigMulDigit(a, Head(b)), BigShift(BigMul(a, Tail(b))))

\* a * n for an integer n >= 0
BigTimes(a, n) ==
    IF n <= 20 * Base THEN BigMulDigit(a, n) ELSE BigMul(a, Big(n))

\* -1, 0, 1 as a < b, a = b, a > b
RECURSIVE BigCmp(_, _)
BigCmp(a, b) ==
    IF Len(a) # Len(b) THEN (IF Len(a) < Len(b) THEN -1 ELSE 1)
    ELSE IF a = <<>> THEN 0
    ELSE LET la == a[Len(a)]
             lb == b[Len(b)]
         IN  IF la # lb THEN (IF la < lb THEN -1 ELSE 1)
             ELSE BigCmp(SubSeq(a, 1, Len(a) - 1), SubSeq(b, 1, Len(b) - 1))

BigLeq(a, b) == BigCmp(a, b) <= 0

BigLess(a, b) == BigCmp(a, b) < 0

\* the largest digit q in lo..hi with q * d <= r  (lo * d <= r is given)
RECURSIVE BigQuotDigit(_, _, _, _)
BigQuotDigit(r, d, lo, hi) ==
    IF lo = hi THEN lo
    ELSE LET mid == (lo + hi + 1) \div 2
         IN  IF BigLeq(BigMulDigit(d, mid), r)
             THEN BigQuotDigit(r, d, mid, hi)
             ELSE BigQuotDigit(r, d, lo, mid - 1)

\* a - b for a >= b
RECURSIVE BigSubC(_, _, _)
BigSubC(a, b, borrow) ==
    IF a = <<>> THEN <<>>
    ELSE LET y == (IF b = <<>> THEN 0 ELSE Head(b)) + borrow
             x == Head(a)
             rest == BigSubC(Tail(a), IF b = <<>> THEN <<>> ELSE Tail(b),
                             IF x < y THEN 1 ELSE 0)
             dgt == IF x < y THEN x + Base - y ELSE x - y
         IN  IF rest = <<>> /\ dgt = 0 THEN <<>> ELSE <<dgt>> \o rest

BigSub(a, b) == BigSubC(a, b, 0)

\* floor(n / d) as an integer, by long division from the top digit of n
\* (d > 0, and the quotient fits an integer wherever the model uses it)
RECURSIVE BigDivStep(_, _, _, _, _)
BigDivStep(n, d, k, q, r) ==
    IF k = 0 THEN q
    ELSE LET r1 == IF r = <<>> /\ n[k] = 0 THEN <<>> ELSE <<n[k]>> \o r
             qd == BigQuotDigit(r1, d, 0, Base - 1)
         IN  BigDivStep(n, d, k - 1, q * Base + qd,
                        BigSub(r1, BigMulDigit(d, qd)))

BigDiv(n, d) == BigDivStep(n, d, Len(n), 0, <<>>)


\* a * 2^k
RECURSIVE BigTimesPow2(_, _)
BigTimesPow2(a, k) ==
    IF k <= 16 THEN BigMulDigit(a, 2 ^ k)
    ELSE BigTimesPow2(BigMulDigit(a, 2 ^ 16), k - 16)

BigPow2(k) == BigTimesPow2(<<1>>, k)

\* ------------------------------------------------------------------
\* The hashes handed to Add.  A hash is Sum32() of an item: 32 bits.
\* HashPool lists them as <<upper 16 bits, lower 16 bits>>.
\*   1: the all-zero hash: index 0, the largest rank 32 - p + 1
\*   2: the all-one hash: index m - 1, rank 1
\*   3: index 0 again, with a rank below that of hash 1
\*   4: index 4096 at precision 16 and 1 at precision 4, a middle rank
\* ------------------------------------------------------------------

HashPool == << <<0, 0>>, <<65535, 65535>>, <<0, 32768>>, <<4096, 1>> >>

Hash32(pair) == Bits(pair[1], WordBits \div 2) \o Bits(pair[2], WordBits \div 2)

Hashes == { Hash32(HashPool[k]) : k \in 1..NumHashes }

\* the precisions callers hand to New: the two ends of the valid range,
\* a neighbour inside it and the two neighbours outside it
PrecisionInputs ==
    {MinPrecision - 1, MinPrecision, MinPrecision + 1,
     MaxPrecision, MaxPrecision + 1}

\* the caller's variables that hold an estimator
Estimators == {"a", "b"}

\* ------------------------------------------------------------------
\* Bit helpers
\* ------------------------------------------------------------------

\* bits hi-1 .. lo of a 32-bit word, as a number
eb32(bits, hi, lo) ==
    BitsToNat(SubSeq(bits, WordBits - hi + 1, WordBits - lo))

\* number of leading zero bits of a 32-bit word
RECURSIVE clz32(_)
clz32(w) == IF w = <<>> \/ Head(w) = 1 THEN 0 ELSE 1 + clz32(Tail(w))

\* x << n on uint32
Shl32(x, n) == IF n >= WordBits THEN Zeros(WordBits)
               ELSE SubSeq(x, n + 1, WordBits) \o Zeros(n)

\* x | 1<<n on uint32
OrBit32(x, n) == IF n >= WordBits \/ n < 0 THEN x
                 ELSE [x EXCEPT ![WordBits - n] = 1]

\* ------------------------------------------------------------------
\* The slice reg
\* ------------------------------------------------------------------

\* make([]uint8, n)
MakeReg(n) == [len |-> n, nz |-> [i \in {} |-> 0]]

\* s[i]
RegAt(s, i) == IF i \in DOMAIN s.nz THEN s.nz[i] ELSE 0

\* s[i] = v
RegSet(s, i, v) ==
    [s EXCEPT !.nz = [j \in (DOMAIN s.nz \cup {i}) \ (IF v = 0 THEN {i} ELSE {})
                        |-> IF j = i THEN v ELSE s.nz[j]]]

countZeros(s) == s.len - Cardinality({i \in DOMAIN s.nz : s.nz[i] # 0})

Max(a, b) == IF a > b THEN a ELSE b

RECURSIVE SetMax(_)
SetMax(S) == IF S = {} THEN 0
             ELSE LET e == CHOOSE e \in S : TRUE IN Max(e, SetMax(S \ {e}))

\* ------------------------------------------------------------------
\* The estimate.  A float64 is the exact rational [num, den] here.
\* ------------------------------------------------------------------

\* the uint64 a computation yields, when the model computes it
U64(n) == <<"uint64", n>>

\* alpha(m) as <<numerator, denominator>>:
\* 0.673, 0.697, 0.709 for m = 16, 32, 64, else 0.7213 / (1 + 1.079 / m)
alpha(m) ==
    CASE m = 16 -> <<673, 1000>>
      [] m = 32 -> <<697, 1000>>
      [] m = 64 -> <<709, 1000>>
      [] OTHER  -> <<7213 * m, 10000 * m + 10790>>

\* sum over the slice of 2^-s[i], times 2^k, for k >= every s[i]
RECURSIVE SumNz(_, _, _)
SumNz(s, I, k) ==
    IF I = {} THEN <<>>
    ELSE LET i == CHOOSE i \in I : TRUE
         IN  BigAdd(BigPow2(k - s.nz[i]), SumNz(s, I \ {i}, k))

SumScaled(s, k) ==
    BigAdd(BigTimesPow2(Big(countZeros(s)), k),
           SumNz(s, {i \in DOMAIN s.nz : s.nz[i] # 0}, k))

\* alpha(m) * m * m / sum with m = len(s)
calculateEstimate(s) ==
    LET k == SetMax({s.nz[i] : i \in DOMAIN s.nz})
        a == alpha(s.len)
    IN  [num |-> BigTimesPow2(BigTimes(BigTimes(Big(a[1]), s.len), s.len), k),
         den |-> BigTimes(SumScaled(s, k), a[2])]

\* uint64(m * ln(m / v)).  ln(1) is exactly 0, so v = m yields 0.  For
\* v < m the value stays a term: m*ln(m/v) - m*ln(m/(v+1)) > 1 for
\* v < m, so terms that differ denote uint64s that differ, and none is 0.
linearCounting(m, v) ==
    IF v = m THEN U64(0) ELSE <<"uint64(m*ln(m/v))", m, v>>

\* uint64(e) for a float64 e >= 0 within range: truncation
Trunc(e) == U64(BigDiv(e.num, e.den))

\* two32/30 is a constant expression over untyped integers: 143165576
Two32Div30 == 143165576

\* uint64(-two32 * math.Log(1 - est/two32)), kept as a term over est
largeRange(e) == <<"uint64(-two32*ln(1-est/two32))", e.num, e.den>>

\* doCount as it would be if the zero count were consulted before the
\* range of est
doCountZerosFirst(h, est) ==
    IF h.z # 0 THEN linearCounting(h.m, h.z)
    ELSE IF BigLess(est.num, BigTimes(est.den, Two32Div30))
         THEN Trunc(est)
         ELSE largeRange(est)

\* doCount from its second statement on, est being what calculateEstimate
\* returned
doCountGiven(h, est) ==
    IF BigLeq(BigTimes(est.num, 2), BigTimes(BigTimes(est.den, 5), h.m))
    THEN IF h.z # 0 THEN linearCounting(h.m, h.z) ELSE Trunc(est)
    ELSE IF BigLess(est.num, BigTimes(est.den, Two32Div30))
         THEN Trunc(est)
         ELSE largeRange(est)

doCount(h) == doCountGiven(h, calculateEstimate(h.reg))


\* ------------------------------------------------------------------
\* The operations, as functions of the estimator(s) they are called on
\* ------------------------------------------------------------------

\* uint16(n)
Uint16(n) == n % Pow2(ZBits)

\* New(precision) for a precision New accepts: the estimator it returns
New(precision) ==
    [p   |-> precision,
     m   |-> Pow2(precision),
     z   |-> Uint16(Pow2(precision)),
     c   |-> U64(0),
     reg |-> MakeReg(Pow2(precision))]

NewFails(precision) == precision > MaxPrecision \/ precision < MinPrecision

\* Clear as it would be without its last line, the store of 0 to c
ClearKeepsCount(h) ==
    [h EXCEPT !.reg = MakeReg(h.m), !.z = Uint16(h.m)]

Clear(h) ==
    [h EXCEPT !.reg = MakeReg(h.m), !.z = Uint16(h.m), !.c = U64(0)]

\* the register index Add selects and the rank it offers that register
AddIndex(h, x) == eb32(x, WordBits, WordBits - h.p)

\* the rank as it would be without the guard bit 1<<(h.p-1)
AddRankUnguarded(h, x) == clz32(Shl32(x, h.p)) + 1

AddRank(h, x) == clz32(OrBit32(Shl32(x, h.p), h.p - 1)) + 1

\* h.reg[i] with i out of range panics before anything is written
AddPanics(h, x) == AddIndex(h, x) >= h.reg.len

\* Add as it would be without the store h.reg[i] = zeroBits
AddForgetsStore(h, x) ==
    LET i        == AddIndex(h, x)
        zeroBits == AddRank(h, x)
    IN  IF zeroBits > RegAt(h.reg, i)
        THEN LET h1 == [h EXCEPT !.z = IF RegAt(h.reg, i) = 0
                                       THEN Uint16(h.z - 1) ELSE h.z]
             IN  [h1 EXCEPT !.c = doCount(h1)]
        ELSE h

Add(h, x) ==
    LET i        == AddIndex(h, x)
        zeroBits == AddRank(h, x)
    IN  IF zeroBits > RegAt(h.reg, i)
        THEN LET h1 == [h EXCEPT !.z = IF RegAt(h.reg, i) = 0
                                       THEN Uint16(h.z - 1) ELSE h.z,
                                 !.reg = RegSet(h.reg, i, zeroBits)]
             IN  [h1 EXCEPT !.c = doCount(h1)]
        ELSE h

\* the loop of Merge as it would be without the comparison v > h.reg[i]:
\* every register of other is copied
MergeRegsCopies(h, other) ==
    [len |-> h.reg.len,
     nz  |-> [i \in {j \in DOMAIN h.reg.nz : j >= other.reg.len} \cup
                    {j \in DOMAIN other.reg.nz : j < h.reg.len}
                |-> IF i >= other.reg.len THEN RegAt(h.reg, i)
                                          ELSE RegAt(other.reg, i)]]

\* the loop of Merge as it would be with the comparison reversed,
\* v < h.reg[i]
MergeRegsKeepsSmaller(h, other) ==
    [len |-> h.reg.len,
     nz  |-> [i \in {j \in DOMAIN h.reg.nz :
                       j >= other.reg.len \/ RegAt(other.reg, j) # 0}
                |-> IF i >= other.reg.len \/ RegAt(h.reg, i) < RegAt(other.reg, i)
                    THEN RegAt(h.reg, i) ELSE RegAt(other.reg, i)]]

\* the loop of Merge over other.reg: every index of other.reg below
\* len(h.reg) is visited before an index at or past it panics
MergeRegs(h, other) ==
    [len |-> h.reg.len,
     nz  |-> [i \in DOMAIN h.reg.nz \cup
                    {j \in DOMAIN other.reg.nz : j < h.reg.len}
                |-> Max(RegAt(h.reg, i), RegAt(other.reg, i))]]

\* Merge as it would be without the comparison of the precisions
MergeUnchecked(h, other) ==
    LET h1 == [h EXCEPT !.reg = MergeRegs(h, other)]
    IN  IF other.reg.len > h.reg.len
        THEN [h |-> h1, ret |-> "panic"]
        ELSE LET h2 == [h1 EXCEPT !.z = Uint16(countZeros(h1.reg))]
             IN  [h |-> [h2 EXCEPT !.c = doCount(h2)], ret |-> "nil"]

\* Merge(other): the receiver afterwards and what the call returns
Merge(h, other) ==
    IF h.p # other.p
    THEN [h |-> h, ret |-> "error"]
    ELSE LET h1 == [h EXCEPT !.reg = MergeRegs(h, other)]
         IN  IF other.reg.len > h.reg.len
             THEN [h |-> h1, ret |-> "panic"]
             ELSE LET h2 == [h1 EXCEPT !.z = Uint16(countZeros(h1.reg))]
                  IN  [h |-> [h2 EXCEPT !.c = doCount(h2)], ret |-> "nil"]

Count(h) == h.c

\* the five values GobEncode writes, in the order it writes them
GobEncode(h) == <<h.reg, h.m, h.p, h.c, h.z>>

\* GobDecode as it would be if it read the precision before m
GobDecodeReadsPrecisionFirst(h, b) ==
    IF Len(b) < 1 THEN [h |-> h, ret |-> "error"]
    ELSE LET h1 == [h EXCEPT !.reg = b[1]] IN
    IF Len(b) < 2 THEN [h |-> h1, ret |-> "error"]
    ELSE LET h2 == [h1 EXCEPT !.p = b[2]] IN
    IF Len(b) < 3 THEN [h |-> h2, ret |-> "error"]
    ELSE LET h3 == [h2 EXCEPT !.m = b[3]] IN
    IF Len(b) < 4 THEN [h |-> h3, ret |-> "error"]
    ELSE LET h4 == [h3 EXCEPT !.c = b[4]] IN
    IF Len(b) < 5 THEN [h |-> h4, ret |-> "error"]
    ELSE [h |-> [h4 EXCEPT !.z = b[5]], ret |-> "nil"]

\* GobDecode(b): each field is assigned as soon as its value is read;
\* the first value missing from b ends the call with an error
GobDecode(h, b) ==
    IF Len(b) < 1 THEN [h |-> h, ret |-> "error"]
    ELSE LET h1 == [h EXCEPT !.reg = b[1]] IN
    IF Len(b) < 2 THEN [h |-> h1, ret |-> "error"]
    ELSE LET h2 == [h1 EXCEPT !.m = b[2]] IN
    IF Len(b) < 3 THEN [h |-> h2, ret |-> "error"]
    ELSE LET h3 == [h2 EXCEPT !.p = b[3]] IN
    IF Len(b) < 4 THEN [h |-> h3, ret |-> "error"]
    ELSE LET h4 == [h3 EXCEPT !.c = b[4]] IN
    IF Len(b) < 5 THEN [h |-> h4, ret |-> "error"]
    ELSE [h |-> [h4 EXCEPT !.z = b[5]], ret |-> "nil"]

\* ------------------------------------------------------------------
\* State
\* ------------------------------------------------------------------

VARIABLES
    hll,    \* the estimators: a function from the caller's variables that
            \* hold one (a subset of Estimators) to its fields
    wire,   \* the bytes GobEncode returned last, as the sequence of the
            \* values they hold; <<>> before any
    last,   \* the call completed last and what it returned
    flight  \* the mutating call that has begun and not yet returned, with
            \* its position and its locals; Idle when there is none

vars == <<hll, wire, last, flight>>

NoCall == [op |-> "none", h |-> "", other |-> "", item |-> <<>>,
           precision |-> 0, est |-> <<>>, ret |-> "", val |-> U64(0),
           bytes |-> <<>>, changed |-> FALSE]

\* no call in flight
Idle == [op |-> "none", h |-> "", other |-> "", item |-> <<>>, pc |-> "",
         h0 |-> <<>>, rest |-> {}, est |-> U64(0)]

Init ==
    /\ hll = [v \in {} |-> 0]
    /\ wire = <<>>
    /\ last = NoCall
    /\ flight = Idle

Bind(v, h) == [u \in DOMAIN hll \cup {v} |-> IF u = v THEN h ELSE hll[u]]

Unbind(v) == [u \in DOMAIN hll \ {v} |-> hll[u]]

\* v, err := New(precision)
DoNew(v, precision) ==
    /\ hll' = IF NewFails(precision) THEN Unbind(v) ELSE Bind(v, New(precision))
    /\ last' = [NoCall EXCEPT !.op = "New", !.h = v, !.precision = precision,
                  !.ret = IF NewFails(precision) THEN "error" ELSE "nil",
                  !.changed = TRUE]
    /\ UNCHANGED <<wire, flight>>

\* v.Clear()
DoClear(v) ==
    /\ v \in DOMAIN hll
    /\ hll' = Bind(v, Clear(hll[v]))
    /\ last' = [NoCall EXCEPT !.op = "Clear", !.h = v,
                  !.changed = (Clear(hll[v]) # hll[v])]
    /\ UNCHANGED <<wire, flight>>

\* v.Add(item) with item.Sum32() = x
DoAdd(v, x) ==
    /\ v \in DOMAIN hll
    /\ LET h == IF AddPanics(hll[v], x) THEN hll[v] ELSE Add(hll[v], x)
       IN  /\ hll' = Bind(v, h)
           /\ last' = [NoCall EXCEPT !.op = "Add", !.h = v, !.item = x,
                         !.ret = IF AddPanics(hll[v], x) THEN "panic" ELSE "nil",
                         !.changed = (h # hll[v])]
    /\ UNCHANGED <<wire, flight>>

\* err := v.Merge(w); w may be v itself
DoMerge(v, w) ==
    /\ v \in DOMAIN hll
    /\ w \in DOMAIN hll
    /\ LET r == Merge(hll[v], hll[w])
       IN  /\ hll' = Bind(v, r.h)
           /\ last' = [NoCall EXCEPT !.op = "Merge", !.h = v, !.other = w,
                         !.ret = r.ret, !.changed = (r.h # hll[v])]
    /\ UNCHANGED <<wire, flight>>

\* v.Count()
DoCount(v) ==
    /\ v \in DOMAIN hll
    /\ last' = [NoCall EXCEPT !.op = "Count", !.h = v, !.val = Count(hll[v])]
    /\ UNCHANGED <<hll, wire, flight>>

\* b, err := v.GobEncode()
DoGobEncode(v) ==
    /\ v \in DOMAIN hll
    /\ wire' = GobEncode(hll[v])
    /\ last' = [NoCall EXCEPT !.op = "GobEncode", !.h = v, !.ret = "nil"]
    /\ UNCHANGED <<hll, flight>>

\* err := v.GobDecode(b), b the first k values of the bytes on the wire
\* (k = Len(wire): the whole snapshot; k less: a truncated one)
DoGobDecode(v, k) ==
    /\ v \in DOMAIN hll
    /\ k \in 0..Len(wire)
    /\ LET r == GobDecode(hll[v], SubSeq(wire, 1, k))
       IN  /\ hll' = Bind(v, r.h)
           /\ last' = [NoCall EXCEPT !.op = "GobDecode", !.h = v,
                         !.bytes = SubSeq(wire, 1, k),
                         !.ret = r.ret, !.changed = (r.h # hll[v])]
    /\ UNCHANGED <<wire, flight>>

Next ==
    \/ \E v \in Estimators, precision \in PrecisionInputs : DoNew(v, precision)
    \/ \E v \in Estimators : DoClear(v)
    \/ \E v \in Estimators, x \in Hashes : DoAdd(v, x)
    \/ \E v, w \in Estimators : DoMerge(v, w)
    \/ \E v \in Estimators : DoCount(v)

Spec == Init /\ [][Next]_vars

\* ------------------------------------------------------------------
\* C1.  In every state reached from New by completed Add, Merge and
\* Clear calls, z equals the number of registers that hold 0.
\* ------------------------------------------------------------------
ZeroCountMatches ==
    \A v \in DOMAIN hll : hll[v].z = countZeros(hll[v].reg)

\* ------------------------------------------------------------------
\* C2.  After every completed Add and every successful Merge, Count()
\* is the three-regime estimate of the current registers, the zero
\* count being the actual number of zero registers.
\* ------------------------------------------------------------------
CountIsEstimateOfRegisters ==
    (last.op \in {"Add", "Merge"} /\ last.ret = "nil") =>
        LET h == hll[last.h]
        IN  Count(h) = doCount([h EXCEPT !.z = countZeros(h.reg)])

\* ------------------------------------------------------------------
\* C3.  Merge with another precision returns an error and leaves every
\* field of the receiver as it was; Merge with the same precision never
\* returns an error.
\* ------------------------------------------------------------------
MergeChecksPrecision ==
    [][ last'.op = "Merge" =>
          IF hll[last'.h].p # hll[last'.other].p
          THEN last'.ret = "error" /\ hll'[last'.h] = hll[last'.h]
          ELSE last'.ret # "error" ]_vars

MergeMismatchSeen ==
    /\ last.op = "Merge"
    /\ last.ret = "error"
    /\ hll[last.h].p # hll[last.other].p
    /\ DOMAIN hll[last.h].reg.nz # {}
    /\ DOMAIN hll[last.other].reg.nz # {}

\* ------------------------------------------------------------------
\* The estimator with its serialization: estimators are built up as in
\* Spec, snapshots of them are encoded, and a behaviour ends with one
\* snapshot, whole or cut short after k values, decoded into a live
\* estimator.
\* ------------------------------------------------------------------

\* the number of values a snapshot holds
GobFields == Len(GobEncode(New(MinPrecision)))

GobHashes == { Hash32(HashPool[k]) : k \in 1..NumGobHashes }

GobPrecisions == {MinPrecision, MaxPrecision}

\* no snapshot has been decoded yet
Undecoded == last.op # "GobDecode"

NextGob ==
    \/ \E v \in Estimators, precision \in GobPrecisions :
          Undecoded /\ DoNew(v, precision)
    \/ \E v \in Estimators : Undecoded /\ DoClear(v)
    \/ \E v \in Estimators, x \in GobHashes : Undecoded /\ DoAdd(v, x)
    \/ \E v, w \in Estimators : Undecoded /\ DoMerge(v, w)
    \/ \E v \in Estimators : Undecoded /\ DoCount(v)
    \/ \E v \in Estimators : Undecoded /\ DoGobEncode(v)
    \/ \E v \in Estimators, k \in 0..GobFields : Undecoded /\ DoGobDecode(v, k)

SpecGob == Init /\ [][NextGob]_vars

\* ------------------------------------------------------------------
\* C4.  Decoding is all-or-nothing: a GobDecode that returns an error
\* leaves registers, m, precision, cached estimate and zero count of
\* the receiver as they were before the call.
\* ------------------------------------------------------------------
DecodeAllOrNothing ==
    (last.op = "GobDecode" /\ last.ret = "error") => ~last.changed

\* ------------------------------------------------------------------
\* Two streams and their union: S is fed to a fresh estimator a and T
\* to a fresh estimator b while u, fresh as well, is fed S and then T;
\* the behaviour ends with a.Merge(b).
\* ------------------------------------------------------------------

ValidPrecisions ==
    {precision \in PrecisionInputs : ~NewFails(precision)}

InitUnion ==
    /\ \E precision \in ValidPrecisions :
          /\ hll = [v \in {"a", "b", "u"} |-> New(precision)]
          /\ last = [NoCall EXCEPT !.op = "New", !.precision = precision,
                       !.ret = "nil", !.changed = TRUE]
    /\ wire = <<>>
    /\ flight = Idle

\* the next item of S: a.Add(x) and u.Add(x)
FeedS(x) ==
    /\ last.op \in {"New", "FeedS"}
    /\ hll' = [hll EXCEPT !["a"] = Add(@, x), !["u"] = Add(@, x)]
    /\ last' = [NoCall EXCEPT !.op = "FeedS", !.h = "a", !.item = x,
                  !.ret = "nil", !.changed = (Add(hll["a"], x) # hll["a"])]
    /\ UNCHANGED <<wire, flight>>

\* the next item of T: b.Add(x) and u.Add(x)
FeedT(x) ==
    /\ last.op \in {"New", "FeedS", "FeedT"}
    /\ hll' = [hll EXCEPT !["b"] = Add(@, x), !["u"] = Add(@, x)]
    /\ last' = [NoCall EXCEPT !.op = "FeedT", !.h = "b", !.item = x,
                  !.ret = "nil", !.changed = (Add(hll["b"], x) # hll["b"])]
    /\ UNCHANGED <<wire, flight>>

\* a.Merge(b), once both streams have ended
MergeStreams ==
    /\ last.op \in {"New", "FeedS", "FeedT"}
    /\ DoMerge("a", "b")

NextUnion ==
    \/ \E x \in Hashes : FeedS(x)
    \/ \E x \in Hashes : FeedT(x)
    \/ MergeStreams

SpecUnion == InitUnion /\ [][NextUnion]_vars

\* ------------------------------------------------------------------
\* C5.  Merge is equivalent to observing the union stream: after
\* a.Merge(b), a has the registers, the zero count and the Count() of
\* the estimator fed S followed by T.
\* ------------------------------------------------------------------
MergeIsUnionStream ==
    last.op = "Merge" =>
        /\ hll["a"].reg = hll["u"].reg
        /\ hll["a"].z = hll["u"].z
        /\ Count(hll["a"]) = Count(hll["u"])

\* ------------------------------------------------------------------
\* Three estimators of one precision, mutated by Add, Merge and Clear.
\* ------------------------------------------------------------------

MergeHashes == { Hash32(HashPool[k]) : k \in 1..NumMergeHashes }

Three == {"a", "b", "c"}

InitThree ==
    /\ \E precision \in ValidPrecisions :
          /\ hll = [v \in Three |-> New(precision)]
          /\ last = [NoCall EXCEPT !.op = "New", !.precision = precision,
                       !.ret = "nil", !.changed = TRUE]
    /\ wire = <<>>
    /\ flight = Idle

NextThree ==
    \/ \E v \in Three, x \in MergeHashes : DoAdd(v, x)
    \/ \E v, w \in Three : DoMerge(v, w)
    \/ \E v \in Three : DoClear(v)

SpecThree == InitThree /\ [][NextThree]_vars

\* ------------------------------------------------------------------
\* C6.  Merge is commutative and associative: for estimators A, B, C
\* of equal precision, A.Merge(B) and B.Merge(A) end with identical
\* registers and identical Count(), and (A merged with B) merged with
\* C has the registers of A merged with (B merged with C).
\* ------------------------------------------------------------------
MergeCommutesAndAssociates ==
    \A v, w \in DOMAIN hll :
        hll[v].p = hll[w].p =>
            LET vw == Merge(hll[v], hll[w])
                wv == Merge(hll[w], hll[v])
            IN  /\ vw.ret = "nil"
                /\ vw.h.reg = MergeRegs(hll[v], hll[w])
                /\ vw.h.reg = wv.h.reg
                /\ Count(vw.h) = Count(wv.h)
                /\ \A u \in DOMAIN hll :
                      hll[u].p = hll[v].p =>
                          \* the registers of (v merged with w) merged with u
                          \* and those of v merged with (w merged with u)
                          MergeRegs(vw.h, hll[u])
                            = MergeRegs(hll[v],
                                [hll[w] EXCEPT !.reg = MergeRegs(hll[w], hll[u])])

\* three estimators with pairwise different registers, none of them
\* holding the registers of a merge of the other two
ThreeDistinctSeen ==
    /\ DOMAIN hll = Three
    /\ \A v, w \in Three : v # w => hll[v].reg # hll[w].reg
    /\ Merge(hll["a"], hll["b"]).h.reg # hll["a"].reg
    /\ Merge(hll["a"], hll["b"]).h.reg # hll["b"].reg
    /\ DOMAIN hll["c"].reg.nz # {}

\* ------------------------------------------------------------------
\* C7.  Merging an estimator with itself leaves its registers, its
\* zero count and its Count() unchanged, in every reachable state.
\* ------------------------------------------------------------------
SelfMergeChangesNothing ==
    \A v \in DOMAIN hll :
        LET r == Merge(hll[v], hll[v])
        IN  /\ r.ret = "nil"
            /\ r.h.reg = hll[v].reg
            /\ r.h.z = hll[v].z
            /\ Count(r.h) = Count(hll[v])

\* ------------------------------------------------------------------
\* C8.  New fails and returns no estimator for a precision below 4 or
\* above 16; for a precision in [4,16] it returns an estimator with
\* m = 2^precision, m registers all 0, zero count m and Count() 0.
\* ------------------------------------------------------------------
NewContract ==
    last.op = "New" =>
        IF last.precision < 4 \/ last.precision > 16
        THEN last.ret = "error" /\ last.h \notin DOMAIN hll
        ELSE /\ last.ret = "nil"
             /\ last.h \in DOMAIN hll
             /\ LET h == hll[last.h]
                IN  /\ h.p = last.precision
                    /\ h.m = Pow2(last.precision)
                    /\ h.reg.len = h.m
                    /\ countZeros(h.reg) = h.m
                    /\ h.z = h.m
                    /\ Count(h) = U64(0)

\* ------------------------------------------------------------------
\* C9.  After Clear(), whatever came before, the estimator's registers,
\* zero count, cached estimate, precision and m are those of the
\* estimator New returns for the same precision.
\* ------------------------------------------------------------------
ClearIsFresh ==
    last.op = "Clear" => hll[last.h] = New(hll[last.h].p)

\* a Clear of an estimator that had registers set
ClearedAfterMutation == last.op = "Clear" /\ last.changed

\* ------------------------------------------------------------------
\* C10.  Add is idempotent under duplicates: once Add(x) has completed,
\* Add(x) again leaves registers, zero count and Count() as they are.
\* ------------------------------------------------------------------
AddIsIdempotent ==
    (last.op = "Add" /\ last.ret = "nil") =>
        LET h == hll[last.h]
            g == Add(h, last.item)
        IN  /\ ~AddPanics(h, last.item)
            /\ g.reg = h.reg
            /\ g.z = h.z
            /\ Count(g) = Count(h)

\* an Add that raised its register
AddRaisedSeen == last.op = "Add" /\ last.ret = "nil" /\ last.changed

\* ------------------------------------------------------------------
\* C11.  Registers are monotone: an Add or a successful Merge leaves
\* every register at or above the value it held before the call, and
\* never increases the zero count.
\* ------------------------------------------------------------------
RegistersMonotone ==
    [][ (last'.op \in {"Add", "Merge"} /\ last'.ret = "nil") =>
          LET old == hll[last'.h]
              new == hll'[last'.h]
          IN  /\ new.reg.len = old.reg.len
              /\ \A i \in DOMAIN old.reg.nz :
                    RegAt(new.reg, i) >= RegAt(old.reg, i)
              /\ new.z <= old.z ]_vars

\* ------------------------------------------------------------------
\* C12.  Round trip: GobEncode writes registers, m, precision, cached
\* estimate and zero count in this order, and decoding the bytes it
\* returned into an estimator leaves that estimator with all five
\* fields equal to those of the encoded one.
\* ------------------------------------------------------------------
GobRoundTrip ==
    [][ /\ last'.op = "GobEncode" =>
             LET E == hll[last'.h]
             IN  wire' = <<E.reg, E.m, E.p, E.c, E.z>>
        /\ (last.op = "GobEncode" /\ last'.op = "GobDecode"
              /\ Len(last'.bytes) = GobFields) =>
             LET E == hll[last.h]
                 D == hll'[last'.h]
             IN  /\ last'.ret = "nil"
                 /\ D.reg = E.reg
                 /\ D.m = E.m
                 /\ D.p = E.p
                 /\ D.c = E.c
                 /\ D.z = E.z ]_vars

\* a whole snapshot of an estimator that holds items, decoded into
\* another estimator that differed from it
RoundTripSeen ==
    /\ last.op = "GobDecode"
    /\ last.ret = "nil"
    /\ last.changed
    /\ Len(last.bytes) = GobFields
    /\ \E w \in DOMAIN hll \ {last.h} :
          /\ wire = GobEncode(hll[w])
          /\ DOMAIN hll[w].reg.nz # {}
          /\ hll[w] = hll[last.h]

\* ------------------------------------------------------------------
\* One writer and concurrent readers.  The writer runs Add and Merge one
\* statement at a time; Count() may run between any two statements.
\* ------------------------------------------------------------------

Writers == {"a", "b"}

InitConc ==
    /\ \E precision \in ValidPrecisions :
          /\ hll = [v \in Writers |-> New(precision)]
          /\ last = [NoCall EXCEPT !.op = "New", !.precision = precision,
                       !.ret = "nil", !.changed = TRUE]
    /\ wire = <<>>
    /\ flight = Idle

\* the call in flight returns
Return(ret) ==
    /\ last' = [NoCall EXCEPT !.op = flight.op, !.h = flight.h,
                  !.other = flight.other, !.item = flight.item, !.ret = ret,
                  !.changed = (hll'[flight.h] # flight.h0)]
    /\ flight' = Idle

\* v.Add(item) is entered: x, i, w and zeroBits are computed
AddEnter(v, x) ==
    /\ flight = Idle
    /\ v \in DOMAIN hll
    /\ ~AddPanics(hll[v], x)
    /\ flight' = [Idle EXCEPT !.op = "Add", !.h = v, !.item = x,
                    !.pc = "test", !.h0 = hll[v]]
    /\ UNCHANGED <<hll, wire, last>>

\* the first statements of Add as they would be if the estimate were
\* published along with the zero count, before the register is written
AddTestPublishes ==
    /\ flight.op = "Add" /\ flight.pc = "test"
    /\ LET h == hll[flight.h]
           i == AddIndex(h, flight.item)
       IN  IF AddRank(h, flight.item) > RegAt(h.reg, i)
           THEN LET h1 == [h EXCEPT !.z = IF RegAt(h.reg, i) = 0
                                          THEN Uint16(@ - 1) ELSE @]
                IN  /\ hll' = [hll EXCEPT ![flight.h] =
                                 [h1 EXCEPT !.c = doCount(h1)]]
                    /\ flight' = [flight EXCEPT !.pc = "store"]
                    /\ UNCHANGED last
           ELSE /\ hll' = hll
                /\ Return("nil")
    /\ UNCHANGED wire

\* if zeroBits > h.reg[i] { if h.reg[i] == 0 { h.z-- }
AddTest ==
    /\ flight.op = "Add" /\ flight.pc = "test"
    /\ LET h == hll[flight.h]
           i == AddIndex(h, flight.item)
       IN  IF AddRank(h, flight.item) > RegAt(h.reg, i)
           THEN /\ hll' = [hll EXCEPT ![flight.h].z =
                             IF RegAt(h.reg, i) = 0 THEN Uint16(@ - 1) ELSE @]
                /\ flight' = [flight EXCEPT !.pc = "store"]
                /\ UNCHANGED last
           ELSE /\ hll' = hll
                /\ Return("nil")
    /\ UNCHANGED wire

\* h.reg[i] = zeroBits
AddStore ==
    /\ flight.op = "Add" /\ flight.pc = "store"
    /\ LET h == hll[flight.h]
       IN  hll' = [hll EXCEPT ![flight.h].reg =
                     RegSet(@, AddIndex(h, flight.item), AddRank(h, flight.item))]
    /\ flight' = [flight EXCEPT !.pc = "est"]
    /\ UNCHANGED <<wire, last>>

\* est := h.doCount(), in Add and in Merge
Estimate ==
    /\ flight.op # "none" /\ flight.pc = "est"
    /\ flight' = [flight EXCEPT !.pc = "publish", !.est = doCount(hll[flight.h])]
    /\ UNCHANGED <<hll, wire, last>>

\* atomic.StoreUint64(&h.c, est), in Add and in Merge, and the return
Publish ==
    /\ flight.op # "none" /\ flight.pc = "publish"
    /\ hll' = [hll EXCEPT ![flight.h].c = flight.est]
    /\ Return("nil")
    /\ UNCHANGED wire

\* v.Merge(w) is entered: the precisions are compared
MergeEnter(v, w) ==
    /\ flight = Idle
    /\ v \in DOMAIN hll /\ w \in DOMAIN hll
    /\ hll[w].reg.len <= hll[v].reg.len
    /\ IF hll[v].p # hll[w].p
       THEN /\ last' = [NoCall EXCEPT !.op = "Merge", !.h = v, !.other = w,
                          !.ret = "error"]
            /\ UNCHANGED flight
       ELSE /\ flight' = [Idle EXCEPT !.op = "Merge", !.h = v, !.other = w,
                            !.pc = "loop", !.h0 = hll[v],
                            !.rest = DOMAIN hll[w].reg.nz]
            /\ UNCHANGED last
    /\ UNCHANGED <<hll, wire>>

\* the iterations of the loop up to and including the next one whose v is
\* not 0 (an iteration with v = 0 writes nothing), or up to its end
MergeLoop ==
    /\ flight.op = "Merge" /\ flight.pc = "loop"
    /\ IF flight.rest = {}
       THEN /\ flight' = [flight EXCEPT !.pc = "zeros"]
            /\ UNCHANGED hll
       ELSE LET i == CHOOSE i \in flight.rest : \A j \in flight.rest : i <= j
                v == RegAt(hll[flight.other].reg, i)
            IN  /\ hll' = [hll EXCEPT ![flight.h].reg =
                             IF v > RegAt(@, i) THEN RegSet(@, i, v) ELSE @]
                /\ flight' = [flight EXCEPT !.rest = @ \ {i}]
    /\ UNCHANGED <<wire, last>>

\* h.z = uint16(countZeros(h.reg))
MergeZeros ==
    /\ flight.op = "Merge" /\ flight.pc = "zeros"
    /\ hll' = [hll EXCEPT ![flight.h].z = Uint16(countZeros(hll[flight.h].reg))]
    /\ flight' = [flight EXCEPT !.pc = "est"]
    /\ UNCHANGED <<wire, last>>

NextConc ==
    \/ \E v \in Writers, x \in MergeHashes : AddEnter(v, x)
    \/ AddTest
    \/ AddStore
    \/ Estimate
    \/ Publish
    \/ \E v, w \in Writers : MergeEnter(v, w)
    \/ MergeLoop
    \/ MergeZeros
    \/ \E v \in Writers : DoCount(v)

SpecConc == InitConc /\ [][NextConc]_vars

\* ------------------------------------------------------------------
\* C13.  With one writer in Add or Merge and concurrent Count() readers,
\* every Count() returns the cached estimate from before the call in
\* flight or the one after it: the cached estimate is the old one for as
\* long as registers or zero count are short of their final values, it
\* is never written except by the statement that publishes the new one,
\* and the call returns with all three at their final values.
\* ------------------------------------------------------------------
CountSeesOldOrNew ==
    /\ [](flight.op # "none" =>
            LET h     == hll[flight.h]
                old   == flight.h0
                other == IF flight.other = flight.h THEN old
                         ELSE hll[flight.other]
                new   == IF flight.op = "Add" THEN Add(old, flight.item)
                         ELSE Merge(old, other).h
            IN  /\ Count(h) \in {Count(old), Count(new)}
                /\ (last.op = "Count" /\ last.h = flight.h) =>
                      last.val \in {Count(old), Count(new)}
                /\ (h.reg # new.reg \/ h.z # new.z) => Count(h) = Count(old))
    /\ [][ /\ \A v \in DOMAIN hll :
                Count(hll'[v]) # Count(hll[v]) =>
                    /\ flight.op # "none" /\ flight.h = v
                    /\ flight'.op = "none"
           /\ (flight.op # "none" /\ flight'.op = "none") =>
                LET old   == flight.h0
                    other == IF flight.other = flight.h THEN old
                             ELSE hll[flight.other]
                IN  hll'[flight.h] = IF flight.op = "Add"
                                     THEN Add(old, flight.item)
                                     ELSE Merge(old, other).h ]_vars

\* a Count() that ran while a call was in flight which had written a
\* register and not yet published its estimate
CountDuringFlightSeen ==
    /\ flight.op # "none"
    /\ last.op = "Count" /\ last.h = flight.h
    /\ hll[flight.h].reg # flight.h0.reg
    /\ flight.pc = "publish"
    /\ flight.est # Count(hll[flight.h])

\* ------------------------------------------------------------------
\* Index and rank as functions of precision and hash: a fresh estimator
\* of each precision New accepts is handed one hash.
\* ------------------------------------------------------------------

\* hashes as <<upper 16 bits, lower 16 bits>>: all zero, all one, the top
\* bit alone, the lowest bit alone, bit 16 alone, the upper half set, the
\* two alternating patterns, and two with few bits set
RankPool ==
    << <<0, 0>>, <<65535, 65535>>, <<32768, 0>>, <<0, 1>>, <<1, 0>>,
       <<65535, 0>>, <<43690, 43690>>, <<21845, 21845>>, <<4096, 1>>,
       <<0, 32768>> >>

RankHashes == { Hash32(RankPool[k]) : k \in 1..NumRankHashes }

AllPrecisions == MinPrecision..MaxPrecision

InitRank ==
    /\ \E precision \in AllPrecisions :
          /\ hll = [v \in {"a"} |-> New(precision)]
          /\ last = [NoCall EXCEPT !.op = "New", !.h = "a",
                       !.precision = precision, !.ret = "nil",
                       !.changed = TRUE]
    /\ wire = <<>>
    /\ flight = Idle

NextRank == \E x \in RankHashes : last.op = "New" /\ DoAdd("a", x)

SpecRank == InitRank /\ [][NextRank]_vars

\* ------------------------------------------------------------------
\* C14.  For every precision p in [4,16] and every hash x, Add selects
\* the index i that is the number formed by the top p bits of x, so
\* 0 <= i < m and the access is in bounds, and offers the rank 1 + the
\* number of leading zeros of the low 32-p bits of x, so
\* 1 <= rank <= 32-p+1 with rank = 32-p+1 exactly when those bits are
\* all zero.
\* ------------------------------------------------------------------
IndexAndRank ==
    last.op = "Add" =>
        LET h    == hll[last.h]
            half == WordBits \div 2
            hi   == BitsToNat(SubSeq(last.item, 1, half))
            lo   == BitsToNat(SubSeq(last.item, half + 1, WordBits))
            \* x = top * 2^(32-p) + low with low < 2^(32-p)
            top  == hi \div Pow2(half - h.p)
            low  == (hi % Pow2(half - h.p)) * Pow2(half) + lo
            \* the number of bits of low from its highest 1 down
            used == CHOOSE k \in 0..(WordBits - h.p) :
                       /\ low < Pow2(k)
                       /\ k > 0 => low >= Pow2(k - 1)
            i    == AddIndex(h, last.item)
            rank == AddRank(h, last.item)
        IN  /\ last.ret = "nil"
            /\ i = top
            /\ 0 <= i /\ i < h.m
            /\ rank = 1 + (WordBits - h.p) - used
            /\ 1 <= rank /\ rank <= WordBits - h.p + 1
            /\ (rank = WordBits - h.p + 1) <=> (low = 0)
            /\ RegAt(h.reg, i) = rank

\* the largest rank, offered to a register other than the first
MaxRankSeen ==
    /\ last.op = "Add"
    /\ last.ret = "nil"
    /\ AddIndex(hll[last.h], last.item) > 0
    /\ AddRank(hll[last.h], last.item) = WordBits - hll[last.h].p + 1
    /\ hll[last.h].p < MaxPrecision

\* ------------------------------------------------------------------
\* C15.  Frame of Add: Add(x) never changes precision, m or a register
\* other than the register i that x selects; with rank <= reg[i] it
\* changes nothing; with rank > reg[i] it sets reg[i] to rank, and the
\* zero count afterwards is one less than before if reg[i] was 0 and
\* the same as before otherwise.
\* ------------------------------------------------------------------
AddFrame ==
    [][ (last'.op = "Add" /\ last'.ret = "nil") =>
          LET old  == hll[last'.h]
              new  == hll'[last'.h]
              i    == AddIndex(old, last'.item)
              rank == AddRank(old, last'.item)
          IN  /\ new.p = old.p
              /\ new.m = old.m
              /\ new.reg.len = old.reg.len
              /\ \A j \in (DOMAIN old.reg.nz \cup DOMAIN new.reg.nz) \ {i} :
                    RegAt(new.reg, j) = RegAt(old.reg, j)
              /\ IF rank <= RegAt(old.reg, i)
                 THEN new = old
                 ELSE /\ RegAt(new.reg, i) = rank
                      /\ new.z = IF RegAt(old.reg, i) = 0
                                 THEN old.z - 1 ELSE old.z ]_vars

\* ------------------------------------------------------------------
\* C16.  Merge only reads its argument: after h.Merge(other), whether
\* it returned an error or not, every field of other is as before when
\* other is another estimator than h, and when it returned nil every
\* register of h holds the maximum of what h and other held there.
\* ------------------------------------------------------------------
MergeReadsArgument ==
    [][ last'.op = "Merge" =>
          LET old   == hll[last'.h]
              new   == hll'[last'.h]
              other == hll[last'.other]
          IN  /\ last'.other # last'.h => hll'[last'.other] = other
              /\ last'.ret = "nil" =>
                    /\ new.reg.len = old.reg.len
                    /\ \A i \in DOMAIN old.reg.nz \cup DOMAIN other.reg.nz
                                  \cup DOMAIN new.reg.nz :
                          RegAt(new.reg, i)
                            = Max(RegAt(old.reg, i), RegAt(other.reg, i)) ]_vars

\* a Merge that raised registers of the receiver and left it with
\* registers above those of the argument
MergeOfDistinctSeen ==
    /\ last.op = "Merge"
    /\ last.ret = "nil"
    /\ last.other # last.h
    /\ last.changed
    /\ hll[last.h].reg # hll[last.other].reg
    /\ DOMAIN hll[last.other].reg.nz # {}

\* ------------------------------------------------------------------
\* The choice of the regime in doCount as a function of the raw estimate:
\* estimators are built up by Add, and doCount is run on them from its
\* second statement on, with the raw estimate given.
\* ------------------------------------------------------------------

\* raw estimates as <<whole part, quarters>>: 0; 2.5 * m for m = 16, 32
\* and 65536 and a quarter more than each; the neighbours of two32/30 =
\* 143165576, the last of them below 2^32/30 = 143165576.53...; and one
\* far above
RawPool ==
    << <<0, 0>>, <<40, 0>>, <<40, 1>>, <<163840, 0>>, <<163840, 1>>,
       <<143165575, 3>>, <<143165576, 0>>, <<143165576, 2>>,
       <<143165577, 0>>, <<400000000, 0>>, <<80, 0>>, <<80, 1>> >>

Raw(pair) == [num |-> Big(4 * pair[1] + pair[2]), den |-> Big(4)]

Raws == { Raw(RawPool[k]) : k \in 1..NumRaws }

\* h.doCount() with calculateEstimate returning est
DoCountGiven(v, est) ==
    /\ v \in DOMAIN hll
    /\ last' = [NoCall EXCEPT !.op = "doCount", !.h = v, !.est = est,
                  !.val = doCountGiven(hll[v], est)]
    /\ UNCHANGED <<hll, wire, flight>>

NextRegime ==
    \/ \E v \in Writers, x \in MergeHashes : DoAdd(v, x)
    \/ \E v \in Writers, est \in Raws : DoCountGiven(v, est)

SpecRegime == InitConc /\ [][NextRegime]_vars

NextEmpty ==
    \/ \E v \in Estimators, precision \in PrecisionInputs : DoNew(v, precision)
    \/ \E v \in Estimators : DoClear(v)
    \/ \E v, w \in Estimators : DoMerge(v, w)

SpecEmpty == Init /\ [][NextEmpty]_vars

\* ------------------------------------------------------------------
\* C18.  An estimator that has observed no items reports zero: in every
\* state reached from New by Clear calls and by Merge calls whose
\* arguments have all registers 0, all registers are 0 and Count() is 0.
\* ------------------------------------------------------------------
EmptyReportsZero ==
    \A v \in DOMAIN hll :
        /\ countZeros(hll[v].reg) = hll[v].reg.len
        /\ Count(hll[v]) = U64(0)

=============================================================================
